---- MODULE Spec2Model ----
(***************************************************************************)
(* Model of the EXIF normalisation code of src/exif.go.                    *)
(*                                                                         *)
(* Go strings are sequences of one-character strings.  float64 values are  *)
(* exact sign-magnitude rationals [s, n, d] (s = 1 or -1, n >= 0, d > 0,   *)
(* n/d in lowest terms), so that -0 stays distinct from +0 as in IEEE 754. *)
(* Within the bounds below every value is far inside the float64 range;    *)
(* strconv.FormatFloat rounds the exact binary value to nearest-even and   *)
(* the inputs of the bounds never land on an inexact decimal tie.          *)
(***************************************************************************)
EXTENDS Integers, Sequences, FiniteSets, TLC

VARIABLES pc, fn, arg, ret, logs, body

vars == <<pc, fn, arg, ret, logs, body>>

(* ------------------------------ bounds -------------------------------- *)

\* longest enumerated rational text
MaxLen == 3

\* characters of the enumerated rational texts
Alphabet == {"0", "1", "5", "/", " ", "-", ".", "a"}

RECURSIVE Strings(_, _)
Strings(A, n) ==
    IF n = 0 THEN {<<>>}
    ELSE LET shorter == Strings(A, n - 1)
         IN  shorter \cup {Append(t, c) : t \in {u \in shorter : Len(u) = n - 1}, c \in A}

(* ------------------------- strings package ---------------------------- *)

Digits == <<"0", "1", "2", "3", "4", "5", "6", "7", "8", "9">>

IsDigit(c) == \E i \in 1..10 : Digits[i] = c

DigitVal(c) == (CHOOSE i \in 1..10 : Digits[i] = c) - 1

Front(t) == SubSeq(t, 1, Len(t) - 1)

RECURSIVE TrimLeft(_, _)
TrimLeft(t, c) == IF t # <<>> /\ t[1] = c THEN TrimLeft(Tail(t), c) ELSE t

RECURSIVE TrimRight(_, _)
TrimRight(t, c) == IF t # <<>> /\ t[Len(t)] = c THEN TrimRight(Front(t), c) ELSE t

\* strings.TrimSpace; the blank is the only white space of the alphabets
TrimSpace(t) == TrimRight(TrimLeft(t, " "), " ")

\* index of the first occurrence of c in t, 0 when there is none
IndexByte(t, c) ==
    IF \E i \in 1..Len(t) : t[i] = c
    THEN CHOOSE i \in 1..Len(t) : t[i] = c /\ \A j \in 1..(i - 1) : t[j] # c
    ELSE 0

\* strings.SplitN(t, sep, n) for n > 0: at most n parts, the last one unsplit
RECURSIVE SplitN(_, _, _)
SplitN(t, sep, n) ==
    LET i == IndexByte(t, sep)
    IN  IF n = 1 \/ i = 0 THEN <<t>>
        ELSE <<SubSeq(t, 1, i - 1)>> \o SplitN(SubSeq(t, i + 1, Len(t)), sep, n - 1)

\* strings.Split(t, sep): every part
Split(t, sep) == SplitN(t, sep, Len(t) + 1)

(* ----------------------------- float64 -------------------------------- *)

RECURSIVE GCD(_, _)
GCD(a, b) == IF b = 0 THEN a ELSE GCD(b, a % b)

RECURSIVE Pow(_, _)
Pow(b, e) == IF e = 0 THEN 1 ELSE b * Pow(b, e - 1)

Reduced(s, n, d, g) == [s |-> s, n |-> n \div g, d |-> d \div g]

\* the value s * n / d
Float(s, n, d) == Reduced(s, n, d, GCD(n, d))

Zero == [s |-> 1, n |-> 0, d |-> 1]

IsZero(f) == f.n = 0

Neg(f) == [f EXCEPT !.s = -f.s]

\* x / y for y # 0
Quo(x, y) == Float(x.s * y.s, x.n * y.d, x.d * y.n)

\* the value m / d of a sum whose terms have the signs xs and ys
Sum(m, d, xs, ys) ==
    IF m = 0
    THEN [s |-> IF xs = -1 /\ ys = -1 THEN -1 ELSE 1, n |-> 0, d |-> 1]
    ELSE Float(IF m < 0 THEN -1 ELSE 1, IF m < 0 THEN -m ELSE m, d)

\* x + y, with the IEEE sign of an exact zero sum
Add(x, y) == Sum(x.s * x.n * y.d + y.s * y.n * x.d, x.d * y.d, x.s, y.s)

\* x >= p/q for a positive constant p/q
GEq(x, p, q) == x.s = 1 /\ x.n * q >= p * x.d

\* one more decimal of a long division by d
LongDivStep(p, d) == [q |-> 10 * p.q + ((10 * p.r) \div d), r |-> (10 * p.r) % d]

\* long division: the floor of n * 10^k / d and what remains (n >= 0, d > 0)
RECURSIVE LongDiv(_, _, _)
LongDiv(n, d, k) ==
    IF k = 0 THEN [q |-> n \div d, r |-> n % d] ELSE LongDivStep(LongDiv(n, d, k - 1), d)

\* the quotient p.q rounded up when the rest p.r of the division by d is a half or more
HalfAwayFromZero(p, d) == IF 2 * p.r >= d THEN p.q + 1 ELSE p.q

\* the quotient p.q rounded to nearest, a rest of exactly a half going to the even side
HalfToEven(p, d) == IF 2 * p.r > d \/ (2 * p.r = d /\ p.q % 2 = 1) THEN p.q + 1 ELSE p.q

\* math.Round(x * 10^k) / 10^k: nearest multiple of 10^-k, ties away from zero
RoundTo(x, k) == Float(x.s, HalfAwayFromZero(LongDiv(x.n, x.d, k), x.d), Pow(10, k))

(* ----------------------------- strconv -------------------------------- *)

AllDigits(t) == \A i \in 1..Len(t) : IsDigit(t[i])

RECURSIVE DigitsVal(_)
DigitsVal(t) == IF t = <<>> THEN 0 ELSE 10 * DigitsVal(Front(t)) + DigitVal(t[Len(t)])

RECURSIVE NatToChars(_)
NatToChars(n) ==
    IF n < 10 THEN <<Digits[n + 1]>> ELSE Append(NatToChars(n \div 10), Digits[(n % 10) + 1])

\* fmt %d
IntToChars(i) == IF i < 0 THEN <<"-">> \o NatToChars(-i) ELSE NatToChars(i)

HasSign(t) == t # <<>> /\ t[1] \in {"-", "+"}

SignOf(t) == IF HasSign(t) /\ t[1] = "-" THEN -1 ELSE 1

Unsigned(t) == IF HasSign(t) THEN Tail(t) ELSE t

\* the digits before the decimal point of a mantissa
IntPart(m) == IF IndexByte(m, ".") = 0 THEN m ELSE SubSeq(m, 1, IndexByte(m, ".") - 1)

\* the digits after the decimal point of a mantissa
FracPart(m) == IF IndexByte(m, ".") = 0 THEN <<>> ELSE SubSeq(m, IndexByte(m, ".") + 1, Len(m))

ParseMantissa(sgn, ip, fp) ==
    IF AllDigits(ip) /\ AllDigits(fp) /\ Len(ip) + Len(fp) > 0
    THEN [val |-> Float(sgn, DigitsVal(ip \o fp), Pow(10, Len(fp))), err |-> "nil"]
    ELSE [val |-> Zero, err |-> "invalid syntax"]

\* strconv.ParseFloat(t, 64) on decimal text: [sign] digits [. digits], one digit at least
ParseFloat(t) == ParseMantissa(SignOf(t), IntPart(Unsigned(t)), FracPart(Unsigned(t)))

\* strconv.Atoi on decimal text: [sign] digits
Atoi(t) ==
    IF Unsigned(t) # <<>> /\ AllDigits(Unsigned(t))
    THEN [val |-> SignOf(t) * DigitsVal(Unsigned(t)), err |-> "nil"]
    ELSE [val |-> 0, err |-> "invalid syntax"]

\* the decimals of a fraction, zero-padded on the left to prec digits
Padded(fd, prec) == [i \in 1..(prec - Len(fd)) |-> "0"] \o fd

\* the text of sign * scaled / 10^prec with prec decimals
FormatScaled(sign, scaled, prec) ==
    (IF sign = -1 THEN <<"-">> ELSE <<>>) \o NatToChars(scaled \div Pow(10, prec))
        \o (IF prec > 0 THEN <<".">> \o Padded(NatToChars(scaled % Pow(10, prec)), prec)
            ELSE <<>>)

\* strconv.FormatFloat(v, 'f', prec, 64): prec decimals, nearest, ties to even
FormatFloat(v, prec) == FormatScaled(v.s, HalfToEven(LongDiv(v.n, v.d, prec), v.d), prec)

(* --------------------------- rational parsing -------------------------- *)

Failed(msg) == [val |-> Zero, err |-> msg]

\* parseEXIFRational once both parts parsed as floats and num is not 0
Fraction(num, den) ==
    IF den.err # "nil" THEN Failed(den.err)
    ELSE IF IsZero(den.val) THEN Failed("invalid value: denumerator is 0")
    ELSE [val |-> Quo(num.val, den.val), err |-> "nil"]

Numerator_NoZeroShortcut(num, parts) ==
    IF num.err # "nil" THEN Failed(num.err)
    ELSE IF Len(parts) = 1 THEN [val |-> num.val, err |-> "nil"]
    ELSE Fraction(num, ParseFloat(parts[2]))

\* parseEXIFRational from the parsed numerator on
Numerator(num, parts) ==
    IF num.err # "nil" THEN Failed(num.err)
    ELSE IF Len(parts) = 1 \/ IsZero(num.val) THEN [val |-> num.val, err |-> "nil"]
    ELSE Fraction(num, ParseFloat(parts[2]))

Parts_NoSlashCheck(parts) ==
    IF parts[1] = <<>> THEN Failed("invalid value: numerator is empty")
    ELSE Numerator(ParseFloat(parts[1]), parts)

\* parseEXIFRational from the split on
Parts(parts) ==
    IF Len(parts) > 2 THEN Failed("invalid value: more than 1 slash found")
    ELSE IF parts[1] = <<>> THEN Failed("invalid value: numerator is empty")
    ELSE Numerator(ParseFloat(parts[1]), parts)

\* parseEXIFRational from the trimmed text on
Trimmed(t) == IF t = <<>> THEN [val |-> Zero, err |-> "nil"] ELSE Parts(SplitN(t, "/", 3))

\* parseEXIFRational: the (float64, error) pair
parseEXIFRational(v) == Trimmed(TrimSpace(v))

\* one log.Printf line of parseEXIFRationalOrLogError
LogRational(v, err) == [where |-> "rational", v |-> v, err |-> err]

\* parseEXIFRationalOrLogError after the call of parseEXIFRational
OrLogError(v, r) ==
    [val |-> r.val, log |-> IF r.err # "nil" THEN <<LogRational(v, r.err)>> ELSE <<>>]

\* parseEXIFRationalOrLogError: the value and the lines it logs
parseEXIFRationalOrLogError(v) == OrLogError(v, parseEXIFRational(v))

(* ----------------------------- formatters ------------------------------ *)

\* formatFloat(v, n): n is not used by the body
formatFloat(v, n) == TrimRight(TrimRight(FormatFloat(v, 2), "0"), ".")

\* int(x) for x = p/q, q > 0: truncation toward zero
Trunc(p, q) == IF p >= 0 THEN p \div q ELSE -((-p) \div q)

\* formatHumanRational once f is parsed
HumanRational(f) ==
    IF IsZero(f) THEN <<"0">>
    ELSE IF GEq(f, 3, 10) THEN formatFloat(f, 2)
    ELSE <<"1", "/">> \o IntToChars(Trunc(f.n + 2 * f.s * f.d, 2 * f.n))

Formatted(r, text) == [val |-> text, log |-> r.log]

HumanRationalOf(r) == Formatted(r, HumanRational(r.val))

\* formatHumanRational: the text and the lines it logs
formatHumanRational(val) == HumanRationalOf(parseEXIFRationalOrLogError(val))

\* the unit suffix of formatResolution
ResolutionUnit(v, resolutionUnit) ==
    CASE resolutionUnit = 2 -> v \o <<" ", "p", "p", "i">>
      [] resolutionUnit = 3 -> v \o <<" ", "p", "p", "c", "m">>
      [] OTHER -> v

ResolutionOf(r, resolutionUnit) ==
    Formatted(r, ResolutionUnit(formatFloat(r.val, 2), resolutionUnit))

\* formatResolution: the text and the lines it logs
formatResolution(resolution, resolutionUnit) ==
    ResolutionOf(parseEXIFRationalOrLogError(resolution), resolutionUnit)

DaysIn(month, year) ==
    IF month = 2
    THEN (IF year % 4 = 0 /\ (year % 100 # 0 \/ year % 400 = 0) THEN 29 ELSE 28)
    ELSE IF month \in {4, 6, 9, 11} THEN 30 ELSE 31

\* the fraction of a second that time.Parse accepts after the seconds
IsFraction(rest) ==
    rest = <<>> \/ (Len(rest) >= 2 /\ rest[1] \in {".", ","} /\ AllDigits(Tail(rest)))

\* time.Parse with the layout "2006:01:02 15:04:05" accepts orig, its hour having hl digits
IsStamp(orig, hl) ==
    /\ Len(orig) >= 17 + hl
    /\ AllDigits(SubSeq(orig, 1, 4)) /\ AllDigits(SubSeq(orig, 6, 7))
    /\ AllDigits(SubSeq(orig, 9, 10)) /\ AllDigits(SubSeq(orig, 12, 11 + hl))
    /\ AllDigits(SubSeq(orig, 13 + hl, 14 + hl)) /\ AllDigits(SubSeq(orig, 16 + hl, 17 + hl))
    /\ orig[5] = ":" /\ orig[8] = ":" /\ orig[11] = " "
    /\ orig[12 + hl] = ":" /\ orig[15 + hl] = ":"
    /\ DigitsVal(SubSeq(orig, 6, 7)) \in 1..12
    /\ DigitsVal(SubSeq(orig, 9, 10))
           \in 1..DaysIn(DigitsVal(SubSeq(orig, 6, 7)), DigitsVal(SubSeq(orig, 1, 4)))
    /\ DigitsVal(SubSeq(orig, 12, 11 + hl)) < 24
    /\ DigitsVal(SubSeq(orig, 13 + hl, 14 + hl)) < 60
    /\ DigitsVal(SubSeq(orig, 16 + hl, 17 + hl)) < 60
    /\ IsFraction(SubSeq(orig, 18 + hl, Len(orig)))

\* Format "2006-01-02T15:04:05" of a time parsed from orig
Reformatted(orig, hl) ==
    IF IsStamp(orig, hl)
    THEN SubSeq(orig, 1, 4) \o <<"-">> \o SubSeq(orig, 6, 7) \o <<"-">> \o SubSeq(orig, 9, 10)
             \o <<"T">> \o (IF hl = 1 THEN <<"0">> ELSE <<>>) \o SubSeq(orig, 12, 11 + hl)
             \o <<":">> \o SubSeq(orig, 13 + hl, 14 + hl)
             \o <<":">> \o SubSeq(orig, 16 + hl, 17 + hl)
    ELSE <<>>

\* formatDateTime: a four-digit year, two-digit month, day, minute and second, an
\* hour of one or two digits and an optional fraction of a second
formatDateTime(orig) == Reformatted(orig, IF Len(orig) >= 13 /\ IsDigit(orig[13]) THEN 2 ELSE 1)

(* ------------------------ the `any` typed values ------------------------ *)

Nil == [t |-> "nil"]

Str(label) == [t |-> "string", v |-> label]

Code(code) == [t |-> "int", v |-> code]

Bool(b) == [t |-> "bool", v |-> b]

(* -------------------------- enumeration tables -------------------------- *)

\* the cases of the switch on s.Flash
FlashModes ==
    0 :> "No Flash" @@ 1 :> "Fired" @@ 5 :> "Fired, Return not detected"
    @@ 7 :> "Fired, Return detected" @@ 8 :> "On, Did not fire" @@ 9 :> "On, Fired"
    @@ 13 :> "On, Return not detected" @@ 15 :> "On, Return detected"
    @@ 16 :> "Off, Did not fire" @@ 20 :> "Off, Did not fire, Return not detected"
    @@ 24 :> "Auto, Did not fire" @@ 25 :> "Auto, Fired"
    @@ 29 :> "Auto, Fired, Return not detected" @@ 31 :> "Auto, Fired, Return detected"
    @@ 32 :> "No flash function" @@ 48 :> "Off, No flash function"
    @@ 65 :> "Fired, Red-eye reduction"
    @@ 69 :> "Fired, Red-eye reduction, Return not detected"
    @@ 71 :> "Fired, Red-eye reduction, Return detected"
    @@ 73 :> "On, Red-eye reduction"
    @@ 77 :> "On, Red-eye reduction, Return not detected"
    @@ 79 :> "On, Red-eye reduction, Return detected"
    @@ 80 :> "Off, Red-eye reduction" @@ 88 :> "Auto, Did not fire, Red-eye reduction"
    @@ 89 :> "Auto, Fired, Red-eye reduction"
    @@ 93 :> "Auto, Fired, Red-eye reduction, Return not detected"
    @@ 95 :> "Auto, Fired, Red-eye reduction, Return detected"

\* the labelled cases of the switch on s.ExposureProgram (case 0 sets nil)
ExposurePrograms ==
    1 :> "Manual" @@ 2 :> "Program AE" @@ 3 :> "Aperture-priority AE"
    @@ 4 :> "Shutter speed priority AE" @@ 5 :> "Creative (Slow speed)"
    @@ 6 :> "Action (High speed)" @@ 7 :> "Portrait" @@ 8 :> "Landscape" @@ 9 :> "Bulb"

\* the labelled cases of the switch on s.MeteringMode (case 0 sets nil)
MeteringModes ==
    1 :> "Average" @@ 2 :> "Center-weighted average" @@ 3 :> "Spot" @@ 4 :> "Multi-spot"
    @@ 5 :> "Multi-segment" @@ 6 :> "Partial" @@ 255 :> "Other"

\* the cases of the switch on s.Compression
Compressions ==
    1 :> "Uncompressed" @@ 2 :> "CCITT 1D" @@ 3 :> "T4/Group 3 Fax"
    @@ 4 :> "T6/Group 4 Fax" @@ 5 :> "LZW" @@ 6 :> "JPEG (old-style)" @@ 7 :> "JPEG"
    @@ 8 :> "Adobe Deflate" @@ 9 :> "JBIG B&W" @@ 10 :> "JBIG Color" @@ 99 :> "JPEG"
    @@ 262 :> "Kodak 262" @@ 32766 :> "Next" @@ 32767 :> "Sony ARW Compressed"
    @@ 32769 :> "Packed RAW" @@ 32770 :> "Samsung SRW Compressed" @@ 32771 :> "CCIRLEW"
    @@ 32772 :> "Samsung SRW Compressed 2" @@ 32773 :> "PackBits"
    @@ 32809 :> "Thunderscan" @@ 32867 :> "Kodak KDC Compressed" @@ 32895 :> "IT8CTPAD"
    @@ 32896 :> "IT8LW" @@ 32897 :> "IT8MP" @@ 32898 :> "IT8BL" @@ 32908 :> "PixarFilm"
    @@ 32909 :> "PixarLog" @@ 32946 :> "Deflate" @@ 32947 :> "DCS"
    @@ 33003 :> "Aperio JPEG 2000 YCbCr" @@ 33005 :> "Aperio JPEG 2000 RGB"
    @@ 34661 :> "JBIG" @@ 34676 :> "SGILog" @@ 34677 :> "SGILog24"
    @@ 34712 :> "JPEG 2000" @@ 34713 :> "Nikon NEF Compressed"
    @@ 34715 :> "JBIG2 TIFF FX"
    @@ 34718 :> "Microsoft Document Imaging (MDI) Binary Level Codec"
    @@ 34719 :> "Microsoft Document Imaging (MDI) Progressive Transform Codec"
    @@ 34720 :> "Microsoft Document Imaging (MDI) Vector" @@ 34887 :> "ESRI Lerc"
    @@ 34892 :> "Lossy JPEG" @@ 34925 :> "LZMA2" @@ 34926 :> "Zstd" @@ 34927 :> "WebP"
    @@ 34933 :> "PNG" @@ 34934 :> "JPEG XR" @@ 65000 :> "Kodak DCR Compressed"
    @@ 65535 :> "Pentax PEF Compressed"

\* the cases of the switch on s.ColorSpace
ColorSpaces ==
    1 :> "sRGB" @@ 2 :> "Adobe RGB" @@ 65533 :> "Wide Gamut RGB"
    @@ 65534 :> "ICC Profile" @@ 65535 :> "Uncalibrated"

\* the cases of the switch on s.SensingMethod
SensingMethods ==
    1 :> "Not defined" @@ 2 :> "One-chip color area" @@ 3 :> "Two-chip color area"
    @@ 4 :> "Three-chip color area" @@ 5 :> "Color sequential area" @@ 7 :> "Trilinear"
    @@ 8 :> "Color sequential linear"

\* the cases of the switch on s.ExposureMode
ExposureModes == 0 :> "Auto" @@ 1 :> "Manual" @@ 2 :> "Auto bracket"

Switch_NilDefault(table, code) == IF code \in DOMAIN table THEN Str(table[code]) ELSE Nil

\* a switch whose default passes the raw code through
Switch(table, code) == IF code \in DOMAIN table THEN Str(table[code]) ELSE Code(code)

\* a switch with an explicit `case 0:` that sets nil
SwitchNilAt0(table, code) == IF code = 0 THEN Nil ELSE Switch(table, code)

\* res.Flash
FlashFired(code) == (code % 2) = 1

FlashMode_RawDefault(code) == Switch(FlashModes, code)

\* res.FlashMode: the default case stores res.Flash
FlashMode(code) ==
    IF code \in DOMAIN FlashModes THEN Str(FlashModes[code]) ELSE Bool(FlashFired(code))

Guarded_NonNegative(code, decoded) == IF code >= 0 THEN decoded ELSE Nil

\* `if code > 0 { switch ... }` around a field that starts nil
Guarded(code, decoded) == IF code > 0 THEN decoded ELSE Nil

(* --------------------------------- GPS --------------------------------- *)

\* the log.Printf line of parseGPSCoordinate
LogGPS(v, err) == [where |-> "gps", v |-> v, err |-> err]

RECURSIVE GPSComponents(_, _, _, _)

GPSComponent_SkipFailed(v, parts, i, res, r) ==
    IF r.err # "nil"
    THEN [val |-> GPSComponents(v, parts, i + 1, res).val,
          log |-> <<LogGPS(v, r.err)>> \o GPSComponents(v, parts, i + 1, res).log]
    ELSE GPSComponents(v, parts, i + 1, Add(res, Quo(r.val, Float(1, Pow(60, i - 1), 1))))

\* one turn of the loop of parseGPSCoordinate, r being the parsed part i
GPSComponent(v, parts, i, res, r) ==
    IF r.err # "nil"
    THEN [val |-> Zero, log |-> <<LogGPS(v, r.err)>>]
    ELSE GPSComponents(v, parts, i + 1, Add(res, Quo(r.val, Float(1, Pow(60, i - 1), 1))))

\* the loop of parseGPSCoordinate from part i on, res being the sum so far
GPSComponents(v, parts, i, res) ==
    IF i > Len(parts) THEN [val |-> res, log |-> <<>>]
    ELSE GPSComponent(v, parts, i, res, parseEXIFRational(parts[i]))

\* parseGPSCoordinate: the decimal degrees and the lines it logs
parseGPSCoordinate(v) == GPSComponents(v, Split(v, " "), 1, Zero)

LatitudeSign_NoDefault(ref) ==
    CASE ref \in {<<"S">>, <<"s">>} -> -1
      [] OTHER -> 1

\* the switch on s.GPSLatitudeRef: the factor, 0 for the default case (return nil)
LatitudeSign(ref) ==
    CASE ref \in {<<"N">>, <<"n">>} -> 1
      [] ref \in {<<"S">>, <<"s">>} -> -1
      [] OTHER -> 0

\* the switch on s.GPSLongitudeRef: the factor, 0 for the default case (return nil)
LongitudeSign(ref) ==
    CASE ref \in {<<"E">>, <<"e">>} -> 1
      [] ref \in {<<"W">>, <<"w">>} -> -1
      [] OTHER -> 0

Signed_Unsigned(x, sign) == x

Signed(x, sign) == IF sign = -1 THEN Neg(x) ELSE x

\* res.Altitude, alt being parseEXIFRational(s.GPSAltitude)
GPSAltitude(s, alt) ==
    IF s.GPSAltitude # <<>> /\ alt.err = "nil"
    THEN formatFloat(IF s.GPSAltitudeRef = <<"1">> THEN Neg(alt.val) ELSE alt.val, 0)
             \o <<" ", "m">>
    ELSE <<>>

\* the unit the switch on s.GPSSpeedRef appends
SpeedUnit(ref) ==
    CASE ref \in {<<"K">>, <<"k">>} -> <<" ", "k", "m", "/", "h">>
      [] ref \in {<<"M">>, <<"m">>} -> <<" ", "m", "p", "h">>
      [] ref \in {<<"N">>, <<"n">>} -> <<" ", "k", "n">>
      [] OTHER -> <<>>

\* res.Speed, speed being parseEXIFRational(s.GPSSpeed)
GPSSpeed(s, speed) ==
    IF s.GPSSpeed # <<>> /\ s.GPSSpeedRef # <<>> /\ speed.err = "nil"
    THEN formatFloat(speed.val, 2) \o SpeedUnit(s.GPSSpeedRef)
    ELSE <<>>

TrueNorth == <<"T", "r", "u", "e", " ", "N", "o", "r", "t", "h">>

MagneticNorth == <<"M", "a", "g", "n", "e", "t", "i", "c", " ", "N", "o", "r", "t", "h">>

\* res.Direction, dir being parseEXIFRational(s.GPSImgDirection)
GPSDirection(s, dir) ==
    IF s.GPSImgDirection # <<>> /\ dir.err = "nil" THEN RoundTo(dir.val, 2) ELSE Zero

\* res.DirectionRef, dir being parseEXIFRational(s.GPSImgDirection)
GPSDirectionRef(s, dir) ==
    IF s.GPSImgDirection # <<>> /\ dir.err = "nil"
    THEN CASE s.GPSImgDirectionRef \in {<<"T">>, <<"t">>} -> TrueNorth
           [] s.GPSImgDirectionRef \in {<<"M">>, <<"m">>} -> MagneticNorth
           [] OTHER -> <<>>
    ELSE <<>>

\* populateGPSFields past the two switches: the filled *EXIFGPS
EXIFGPS(s, lat, long, alt, speed, dir) ==
    [t            |-> "EXIFGPS",
     Latitude     |-> RoundTo(Signed(lat.val, LatitudeSign(s.GPSLatitudeRef)), 5),
     Longitude    |-> RoundTo(Signed(long.val, LongitudeSign(s.GPSLongitudeRef)), 5),
     Altitude     |-> GPSAltitude(s, alt),
     Speed        |-> GPSSpeed(s, speed),
     Direction    |-> GPSDirection(s, dir),
     DirectionRef |-> GPSDirectionRef(s, dir)]

\* populateGPSFields from the first parseGPSCoordinate on
Coordinates(s, lat, long) ==
    IF LatitudeSign(s.GPSLatitudeRef) = 0 THEN [gps |-> Nil, log |-> lat.log]
    ELSE IF LongitudeSign(s.GPSLongitudeRef) = 0 THEN [gps |-> Nil, log |-> lat.log \o long.log]
    ELSE [gps |-> EXIFGPS(s, lat, long, parseEXIFRational(s.GPSAltitude),
                          parseEXIFRational(s.GPSSpeed), parseEXIFRational(s.GPSImgDirection)),
          log |-> lat.log \o long.log]

\* populateGPSFields: the *EXIFGPS and the lines logged on the way
populateGPSFields(s) ==
    IF s.GPSLatitude = <<>> \/ s.GPSLongitude = <<>> THEN [gps |-> Nil, log |-> <<>>]
    ELSE Coordinates(s, parseGPSCoordinate(s.GPSLatitude), parseGPSCoordinate(s.GPSLongitude))

(* ------------------------------ assembler ------------------------------ *)

IsInt(part) == Atoi(part).err = "nil"

\* the loop over the parts of s.SubjectArea: the integers among them
Ints(kept) == [t |-> "slice", v |-> [i \in 1..Len(kept) |-> Atoi(kept[i]).val]]

SubjectAreaOf_BoundAfterFilter(parts) ==
    IF Len(SelectSeq(parts, IsInt)) >= 2 /\ Len(SelectSeq(parts, IsInt)) <= 4
    THEN Ints(SelectSeq(parts, IsInt)) ELSE Nil

\* res.SubjectArea, parts being the split of a non-empty s.SubjectArea
SubjectAreaOf(parts) ==
    IF Len(parts) >= 2 /\ Len(parts) <= 4 THEN Ints(SelectSeq(parts, IsInt)) ELSE Nil

\* res.SubjectArea
SubjectArea(text) == IF text # <<>> THEN SubjectAreaOf(Split(text, " ")) ELSE Nil

\* a string field set under `if raw != ""`
IfSet(raw, formatted) == IF raw # <<>> THEN formatted ELSE <<>>

\* the condition on s.ExposureBiasValue
BiasIsSet(s) == s.ExposureBiasValue # <<>> /\ s.ExposureBiasValue # <<"0">>

\* ParseEXIFFromBimg after its calls: the *EXIF and the lines logged on the way
EXIF(s, xres, yres, fnum, expt, shut, aper, brig, bias, focal, gps) ==
    [res |->
        [Make                    |-> s.Make,
         Model                   |-> s.Model,
         Orientation             |-> s.Orientation,
         Software                |-> s.Software,
         YCbCrPositioning        |-> s.YCbCrPositioning,
         ExifVersion             |-> s.ExifVersion,
         ISO                     |-> s.ISOSpeedRatings,
         ComponentsConfiguration |-> s.ComponentsConfiguration,
         FocalLengthIn35mmFilm   |-> s.FocalLengthIn35mmFilm,
         ExifImageWidth          |-> s.PixelXDimension,
         ExifImageHeight         |-> s.PixelYDimension,
         SceneType               |-> s.SceneType,
         SceneCaptureType        |-> s.SceneCaptureType,
         XResolution             |-> IfSet(s.XResolution, xres.val),
         YResolution             |-> IfSet(s.YResolution, yres.val),
         DateTime                |-> IfSet(s.Datetime, formatDateTime(s.Datetime)),
         DateTimeOriginal        |-> IfSet(s.DateTimeOriginal, formatDateTime(s.DateTimeOriginal)),
         DateTimeDigitized       |-> IfSet(s.DateTimeDigitized, formatDateTime(s.DateTimeDigitized)),
         FNumber                 |-> IfSet(s.FNumber, formatFloat(fnum.val, 3)),
         ExposureTime            |-> IfSet(s.ExposureTime, expt.val),
         ShutterSpeedValue       |-> IfSet(s.ShutterSpeedValue, shut.val),
         ApertureValue           |-> IfSet(s.ApertureValue, aper.val),
         BrightnessValue         |-> IfSet(s.BrightnessValue, brig.val),
         ExposureCompensation    |-> IF BiasIsSet(s) THEN bias.val ELSE <<>>,
         FocalLength             |-> IfSet(s.FocalLength, formatFloat(focal.val, 2)),
         SubjectArea             |-> SubjectArea(s.SubjectArea),
         Flash                   |-> FlashFired(s.Flash),
         FlashMode               |-> FlashMode(s.Flash),
         ExposureProgram         |-> Guarded(s.ExposureProgram,
                                             SwitchNilAt0(ExposurePrograms, s.ExposureProgram)),
         MeteringMode            |-> Guarded(s.MeteringMode,
                                             SwitchNilAt0(MeteringModes, s.MeteringMode)),
         Compression             |-> Guarded(s.Compression, Switch(Compressions, s.Compression)),
         ColorSpace              |-> Guarded(s.ColorSpace, Switch(ColorSpaces, s.ColorSpace)),
         SensingMethod           |-> Guarded(s.SensingMethod,
                                             Switch(SensingMethods, s.SensingMethod)),
         ExposureMode            |-> Guarded(s.ExposureMode, Switch(ExposureModes, s.ExposureMode)),
         WhiteBalance            |-> Nil,
         GPS                     |-> gps.gps],
     log |->
        IfSet(s.XResolution, xres.log) \o IfSet(s.YResolution, yres.log)
            \o IfSet(s.FNumber, fnum.log) \o IfSet(s.ExposureTime, expt.log)
            \o IfSet(s.ShutterSpeedValue, shut.log) \o IfSet(s.ApertureValue, aper.log)
            \o IfSet(s.BrightnessValue, brig.log)
            \o (IF BiasIsSet(s) THEN bias.log ELSE <<>>)
            \o IfSet(s.FocalLength, focal.log) \o gps.log]

\* ParseEXIFFromBimg: the *EXIF and the lines logged on the way
ParseEXIFFromBimg(s) ==
    EXIF(s,
         formatResolution(s.XResolution, s.ResolutionUnit),
         formatResolution(s.YResolution, s.ResolutionUnit),
         parseEXIFRationalOrLogError(s.FNumber),
         formatHumanRational(s.ExposureTime),
         formatHumanRational(s.ShutterSpeedValue),
         formatHumanRational(s.ApertureValue),
         formatHumanRational(s.BrightnessValue),
         formatHumanRational(s.ExposureBiasValue),
         parseEXIFRationalOrLogError(s.FocalLength),
         populateGPSFields(s))

(* ---------------------------- encoding/json ---------------------------- *)

\* the fields of EXIF in order: JSON key, Go kind and the omitempty option of the tag
EXIFTags == <<
    [key |-> "make",                    field |-> "Make",                    kind |-> "string", omitempty |-> TRUE],
    [key |-> "model",                   field |-> "Model",                   kind |-> "string", omitempty |-> TRUE],
    [key |-> "orientation",             field |-> "Orientation",             kind |-> "int",    omitempty |-> TRUE],
    [key |-> "software",                field |-> "Software",                kind |-> "string", omitempty |-> TRUE],
    [key |-> "ycbcrPositioning",        field |-> "YCbCrPositioning",        kind |-> "int",    omitempty |-> TRUE],
    [key |-> "exifVersion",             field |-> "ExifVersion",             kind |-> "string", omitempty |-> TRUE],
    [key |-> "iso",                     field |-> "ISO",                     kind |-> "int",    omitempty |-> TRUE],
    [key |-> "componentsConfiguration", field |-> "ComponentsConfiguration", kind |-> "string", omitempty |-> TRUE],
    [key |-> "focalLengthIn35mmFilm",   field |-> "FocalLengthIn35mmFilm",   kind |-> "int",    omitempty |-> TRUE],
    [key |-> "exifImageWidth",          field |-> "ExifImageWidth",          kind |-> "int",    omitempty |-> TRUE],
    [key |-> "exifImageHeight",         field |-> "ExifImageHeight",         kind |-> "int",    omitempty |-> TRUE],
    [key |-> "xResolution",             field |-> "XResolution",             kind |-> "string", omitempty |-> TRUE],
    [key |-> "yResolution",             field |-> "YResolution",             kind |-> "string", omitempty |-> TRUE],
    [key |-> "dateTime",                field |-> "DateTime",                kind |-> "string", omitempty |-> TRUE],
    [key |-> "dateTimeOriginal",        field |-> "DateTimeOriginal",        kind |-> "string", omitempty |-> TRUE],
    [key |-> "dateTimeDigitized",       field |-> "DateTimeDigitized",       kind |-> "string", omitempty |-> TRUE],
    [key |-> "fNumber",                 field |-> "FNumber",                 kind |-> "string", omitempty |-> TRUE],
    [key |-> "exposureTime",            field |-> "ExposureTime",            kind |-> "string", omitempty |-> TRUE],
    [key |-> "exposureProgram",         field |-> "ExposureProgram",         kind |-> "any",    omitempty |-> TRUE],
    [key |-> "shutterSpeedValue",       field |-> "ShutterSpeedValue",       kind |-> "string", omitempty |-> TRUE],
    [key |-> "apertureValue",           field |-> "ApertureValue",           kind |-> "string", omitempty |-> TRUE],
    [key |-> "brightnessValue",         field |-> "BrightnessValue",         kind |-> "string", omitempty |-> TRUE],
    [key |-> "exposureCompensation",    field |-> "ExposureCompensation",    kind |-> "string", omitempty |-> TRUE],
    [key |-> "meteringMode",            field |-> "MeteringMode",            kind |-> "any",    omitempty |-> TRUE],
    [key |-> "compression",             field |-> "Compression",             kind |-> "any",    omitempty |-> TRUE],
    [key |-> "flash",                   field |-> "Flash",                   kind |-> "bool",   omitempty |-> TRUE],
    [key |-> "flashMode",               field |-> "FlashMode",               kind |-> "any",    omitempty |-> TRUE],
    [key |-> "focalLength",             field |-> "FocalLength",             kind |-> "string", omitempty |-> TRUE],
    [key |-> "subjectArea",             field |-> "SubjectArea",             kind |-> "slice",  omitempty |-> TRUE],
    [key |-> "colorSpace",              field |-> "ColorSpace",              kind |-> "any",    omitempty |-> TRUE],
    [key |-> "sensingMethod",           field |-> "SensingMethod",           kind |-> "any",    omitempty |-> TRUE],
    [key |-> "exposureMode",            field |-> "ExposureMode",            kind |-> "any",    omitempty |-> TRUE],
    [key |-> "whiteBalance",            field |-> "WhiteBalance",            kind |-> "any",    omitempty |-> TRUE],
    [key |-> "sceneType",               field |-> "SceneType",               kind |-> "string", omitempty |-> TRUE],
    [key |-> "sceneCaptureType",        field |-> "SceneCaptureType",        kind |-> "int",    omitempty |-> TRUE],
    [key |-> "gps",                     field |-> "GPS",                     kind |-> "ptr",    omitempty |-> TRUE] >>

\* the fields of EXIFGPS in order; their keys are nested in the "gps" object
GPSTags == <<
    [key |-> "gps.latitude",     field |-> "Latitude",     kind |-> "float",  omitempty |-> FALSE],
    [key |-> "gps.longitude",    field |-> "Longitude",    kind |-> "float",  omitempty |-> FALSE],
    [key |-> "gps.altitude",     field |-> "Altitude",     kind |-> "string", omitempty |-> FALSE],
    [key |-> "gps.speed",        field |-> "Speed",        kind |-> "string", omitempty |-> FALSE],
    [key |-> "gps.direction",    field |-> "Direction",    kind |-> "float",  omitempty |-> FALSE],
    [key |-> "gps.directionRef", field |-> "DirectionRef", kind |-> "string", omitempty |-> FALSE] >>

\* encoding/json's isEmptyValue
IsEmptyValue(kind, v) ==
    CASE kind = "string" -> Len(v) = 0
      [] kind = "int"    -> v = 0
      [] kind = "float"  -> IsZero(v)
      [] kind = "bool"   -> v = FALSE
      [] kind = "slice"  -> v.t = "nil" \/ Len(v.v) = 0
      [] kind \in {"any", "ptr"} -> v.t = "nil"

\* the tags of a struct value whose fields json.Marshal writes
Emitted(tags, value) ==
    {i \in 1..Len(tags) : ~(tags[i].omitempty /\ IsEmptyValue(tags[i].kind, value[tags[i].field]))}

\* json.Marshal of an *EXIF, as the map from each key written to the value written
Marshal(res) ==
    LET top  == Emitted(EXIFTags, res)
        sub  == IF res.GPS.t = "nil" THEN {} ELSE Emitted(GPSTags, res.GPS)
        keys == {EXIFTags[i].key : i \in top} \cup {GPSTags[i].key : i \in sub}
    IN  [k \in keys |->
            IF \E i \in top : EXIFTags[i].key = k
            THEN res[EXIFTags[CHOOSE i \in top : EXIFTags[i].key = k].field]
            ELSE res.GPS[GPSTags[CHOOSE i \in sub : GPSTags[i].key = k].field]]

(* ------------------------------ the calls ------------------------------ *)

\* what bimg yields for an image without metadata
NoEXIF ==
    [Make |-> <<>>, Model |-> <<>>, Orientation |-> 0, Software |-> <<>>,
     YCbCrPositioning |-> 0, ExifVersion |-> <<>>, ISOSpeedRatings |-> 0,
     ComponentsConfiguration |-> <<>>, FocalLengthIn35mmFilm |-> 0,
     PixelXDimension |-> 0, PixelYDimension |-> 0, SceneType |-> <<>>,
     SceneCaptureType |-> 0, XResolution |-> <<>>, YResolution |-> <<>>,
     ResolutionUnit |-> 0, Datetime |-> <<>>, DateTimeOriginal |-> <<>>,
     DateTimeDigitized |-> <<>>, FNumber |-> <<>>, ExposureTime |-> <<>>,
     ShutterSpeedValue |-> <<>>, ApertureValue |-> <<>>, BrightnessValue |-> <<>>,
     ExposureBiasValue |-> <<>>, FocalLength |-> <<>>, SubjectArea |-> <<>>,
     Flash |-> 0, ExposureProgram |-> 0, MeteringMode |-> 0, Compression |-> 0,
     ColorSpace |-> 0, SensingMethod |-> 0, ExposureMode |-> 0,
     GPSLatitude |-> <<>>, GPSLatitudeRef |-> <<>>, GPSLongitude |-> <<>>,
     GPSLongitudeRef |-> <<>>, GPSAltitude |-> <<>>, GPSAltitudeRef |-> <<>>,
     GPSSpeed |-> <<>>, GPSSpeedRef |-> <<>>, GPSImgDirection |-> <<>>,
     GPSImgDirectionRef |-> <<>>]

Stamp == <<"2", "0", "2", "3", ":", "0", "6", ":", "1", "5", " ",
           "1", "0", ":", "3", "0", ":", "0", "0">>

\* a photograph with every tag set
Photo ==
    [Make |-> <<"a">>, Model |-> <<"a", "1">>, Orientation |-> 1, Software |-> <<"a">>,
     YCbCrPositioning |-> 1, ExifVersion |-> <<"0", "2", "3", "1">>, ISOSpeedRatings |-> 100,
     ComponentsConfiguration |-> <<"a">>, FocalLengthIn35mmFilm |-> 35,
     PixelXDimension |-> 550, PixelYDimension |-> 740, SceneType |-> <<"a">>,
     SceneCaptureType |-> 1, XResolution |-> <<"7", "2">>, YResolution |-> <<"7", "2", "/", "1">>,
     ResolutionUnit |-> 2, Datetime |-> Stamp, DateTimeOriginal |-> Stamp,
     DateTimeDigitized |-> Stamp, FNumber |-> <<"1", "4", "/", "5">>,
     ExposureTime |-> <<"1", "/", "2", "5", "0">>, ShutterSpeedValue |-> <<"3", "/", "1", "0">>,
     ApertureValue |-> <<"3">>, BrightnessValue |-> <<"5", "/", "3">>,
     ExposureBiasValue |-> <<"-", "1", "/", "3">>, FocalLength |-> <<"3", "5">>,
     SubjectArea |-> <<"1", "0", " ", "2", "0">>,
     Flash |-> 25, ExposureProgram |-> 2, MeteringMode |-> 5, Compression |-> 99,
     ColorSpace |-> 1, SensingMethod |-> 2, ExposureMode |-> 1,
     GPSLatitude |-> <<"4", "0", " ", "2", "6", " ", "4", "6", ".", "3">>,
     GPSLatitudeRef |-> <<"S">>,
     GPSLongitude |-> <<"7", "3", " ", "5", "8", " ", "1", "2", ".", "0">>,
     GPSLongitudeRef |-> <<"W">>,
     GPSAltitude |-> <<"1", "2", "3", "4", "5", "/", "1", "0", "0">>,
     GPSAltitudeRef |-> <<"0">>,
     GPSSpeed |-> <<"5">>, GPSSpeedRef |-> <<"K">>, GPSImgDirection |-> <<"1", ".", "5">>,
     GPSImgDirectionRef |-> <<"T">>]

Bases == {NoEXIF, Photo}

\* longest enumerated text of a field of the raw record
MaxFieldLen == 2

\* longest enumerated GPS coordinate
MaxCoordLen == 2

\* largest code of the enumerated range of codes
MaxCode == 100

CoordAlphabet == {"1", " ", "/", "a"}

RefLetters == {"N", "n", "S", "s", "E", "e", "W", "w", "K", "k", "M", "m", "T", "t",
               "X", "0", "1"}

RationalTexts ==
    Strings(Alphabet, MaxLen)
        \cup {Photo.ExposureTime, Photo.ShutterSpeedValue, Photo.ExposureBiasValue,
              Photo.GPSAltitude}

FieldTexts == Strings(Alphabet, MaxFieldLen)

CoordTexts == Strings(CoordAlphabet, MaxCoordLen)

\* degrees, a malformed minutes component, seconds
BadMinutes == <<"4", "0", " ", "1", "/", "0", " ", "3", "6">>

\* the coordinates handed to parseGPSCoordinate alone
GPSTexts ==
    Strings(CoordAlphabet, MaxCoordLen + 1)
        \cup {Photo.GPSLatitude, Photo.GPSLongitude, BadMinutes,
              <<"4", "0", " ", "3", "0">>, <<"4", "0", " ", "3", "0", " ", "a">>}

RefTexts == {<<>>} \cup {<<c>> : c \in RefLetters}

DateTexts ==
    {<<>>, <<"a">>, Stamp, Append(Stamp, "a"), Stamp \o <<".", "5">>,
     [Stamp EXCEPT ![7] = "0"], [Stamp EXCEPT ![6] = "2", ![7] = "2", ![9] = "3", ![10] = "0"],
     SubSeq(Stamp, 1, 11) \o <<"9">> \o SubSeq(Stamp, 14, 19)}

Tables == <<FlashModes, ExposurePrograms, MeteringModes, Compressions, ColorSpaces,
            SensingMethods, ExposureModes>>

\* a range of small codes, every code of a table and its two neighbours
Codes ==
    (-2..MaxCode) \cup {40000}
        \cup UNION {{c - 1, c, c + 1} : c \in UNION {DOMAIN Tables[i] : i \in 1..Len(Tables)}}

\* longest enumerated subject area
MaxAreaLen == 5

AreaAlphabet == {"1", "-", " ", "a"}

\* three coordinates and a token that is no integer
AreaWithWord == <<"1", "0", " ", "2", "0", " ", "3", "0", " ", "a", "b", "c">>

AreaTexts ==
    Strings(AreaAlphabet, MaxAreaLen)
        \cup {AreaWithWord, <<"1", "0", " ", "2", "0", " ", "3", "0", " ", "4", "0", " ", "5">>,
              <<"+", "5", " ", "1", ".", "5", " ", "-", "7">>}

GPSTextFields == {"GPSAltitude", "GPSSpeed", "GPSImgDirection"}

CopiedFields ==
    {"Make", "Model", "Software", "ExifVersion", "ComponentsConfiguration", "SceneType"}

CopiedTexts == {<<>>, <<" ">>, <<"a">>}

TextFields ==
    {"XResolution", "YResolution", "FNumber", "ExposureTime", "ShutterSpeedValue",
     "ApertureValue", "BrightnessValue", "ExposureBiasValue", "FocalLength", "SubjectArea"}

DateFields == {"Datetime", "DateTimeOriginal", "DateTimeDigitized"}

RefFields ==
    {"GPSLatitudeRef", "GPSLongitudeRef", "GPSAltitudeRef", "GPSSpeedRef", "GPSImgDirectionRef"}

CodeFields ==
    {"Orientation", "YCbCrPositioning", "ISOSpeedRatings", "FocalLengthIn35mmFilm",
     "PixelXDimension", "PixelYDimension", "SceneCaptureType", "ResolutionUnit", "Flash",
     "ExposureProgram", "MeteringMode", "Compression", "ColorSpace", "SensingMethod",
     "ExposureMode"}

\* the raw records that differ from b in their GPS tags
GPSRecords(b) ==
    {[b EXCEPT !.GPSLatitude = x, !.GPSLongitude = y] : x \in CoordTexts, y \in CoordTexts}
        \cup {[b EXCEPT !.GPSLatitudeRef = x, !.GPSLongitudeRef = y] : x \in RefTexts, y \in RefTexts}
        \cup {[b EXCEPT ![f] = x] : f \in RefFields, x \in RefTexts}
        \cup {[b EXCEPT ![f] = x] : f \in GPSTextFields, x \in FieldTexts}

\* the raw records that differ from b in one tag other than the GPS tags
RawRecords(b) ==
    {[b EXCEPT ![f] = x] : f \in TextFields, x \in FieldTexts}
        \cup {[b EXCEPT ![f] = x] : f \in CopiedFields, x \in CopiedTexts}
        \cup {[b EXCEPT ![f] = x] : f \in DateFields, x \in DateTexts}
        \cup {[b EXCEPT ![f] = x] : f \in CodeFields, x \in Codes}

\* the raw records that differ from b in their subject area
AreaRecords(b) == {[b EXCEPT !.SubjectArea = x] : x \in AreaTexts}

Functions ==
    {"parseEXIFRational", "formatHumanRational", "parseGPSCoordinate", "populateGPSFields",
     "ParseEXIFFromBimg"}

Inputs(f) ==
    CASE f = "parseEXIFRational"   -> RationalTexts
      [] f = "formatHumanRational" -> RationalTexts
      [] f = "parseGPSCoordinate"  -> GPSTexts
      [] f = "populateGPSFields"   -> {NoEXIF} \cup GPSRecords(Photo)
      [] f = "ParseEXIFFromBimg"   -> UNION {RawRecords(b) : b \in Bases} \cup GPSRecords(Photo)
                                          \cup AreaRecords(Photo)

Init ==
    /\ pc = "call"
    /\ fn \in Functions
    /\ arg \in Inputs(fn)
    /\ ret = Nil
    /\ logs = <<>>
    /\ body = <<>>

\* a call returns value and appends lines to the log
Return(value, lines) == ret' = value /\ logs' = logs \o lines

CallParseEXIFRational ==
    /\ pc = "call"
    /\ fn = "parseEXIFRational"
    /\ ret' = parseEXIFRational(arg)
    /\ pc' = "done"
    /\ UNCHANGED <<fn, arg, logs, body>>

CallFormatHumanRational ==
    /\ pc = "call"
    /\ fn = "formatHumanRational"
    /\ Return(formatHumanRational(arg).val, formatHumanRational(arg).log)
    /\ pc' = "done"
    /\ UNCHANGED <<fn, arg, body>>

CallParseGPSCoordinate ==
    /\ pc = "call"
    /\ fn = "parseGPSCoordinate"
    /\ Return(parseGPSCoordinate(arg).val, parseGPSCoordinate(arg).log)
    /\ pc' = "done"
    /\ UNCHANGED <<fn, arg, body>>

CallPopulateGPSFields ==
    /\ pc = "call"
    /\ fn = "populateGPSFields"
    /\ Return(populateGPSFields(arg).gps, populateGPSFields(arg).log)
    /\ pc' = "done"
    /\ UNCHANGED <<fn, arg, body>>

CallParseEXIFFromBimg ==
    /\ pc = "call"
    /\ fn = "ParseEXIFFromBimg"
    /\ Return(ParseEXIFFromBimg(arg).res, ParseEXIFFromBimg(arg).log)
    /\ pc' = "returned"
    /\ UNCHANGED <<fn, arg, body>>

\* the caller serialises the record it got
MarshalEXIF ==
    /\ pc = "returned"
    /\ body' = Marshal(ret)
    /\ pc' = "done"
    /\ UNCHANGED <<fn, arg, ret, logs>>

Next ==
    \/ CallParseEXIFRational
    \/ CallFormatHumanRational
    \/ CallParseGPSCoordinate
    \/ CallPopulateGPSFields
    \/ CallParseEXIFFromBimg
    \/ MarshalEXIF

Spec == Init /\ [][Next]_vars

(* ------------------------------ properties ----------------------------- *)

Returned(f) == pc = "done" /\ fn = f

Slashes(t) == Cardinality({i \in 1..Len(t) : t[i] = "/"})

\* the text before the first slash (the whole text when there is none)
NumeratorText(t) == IF IndexByte(t, "/") = 0 THEN t ELSE SubSeq(t, 1, IndexByte(t, "/") - 1)

DenominatorText(t) == SubSeq(t, IndexByte(t, "/") + 1, Len(t))

\* r = x / y, by cross-multiplication
IsQuotient(r, x, y) == r.s = x.s * y.s /\ r.n * x.d * y.n = r.d * x.n * y.d

\* math.Round of p/q (q > 0): nearest integer, ties away from zero
MathRound(p, q) == IF p >= 0 THEN (2 * p + q) \div (2 * q) ELSE -((2 * (-p) + q) \div (2 * q))

\* C3: on a text "N/D", parseEXIFRational returns 0 without error when N parses
\* to zero, whatever D is; fails when N is nonzero and D parses to zero; and
\* returns N/D without error when both are nonzero.
C3_RationalOfFraction ==
    Returned("parseEXIFRational") /\ Slashes(TrimSpace(arg)) = 1 =>
        LET N == ParseFloat(NumeratorText(TrimSpace(arg)))
            D == ParseFloat(DenominatorText(TrimSpace(arg)))
        IN  /\ N.err = "nil" /\ IsZero(N.val) => ret.err = "nil" /\ IsZero(ret.val)
            /\ N.err = "nil" /\ ~IsZero(N.val) /\ D.err = "nil" /\ IsZero(D.val)
                   => ret.err # "nil"
            /\ N.err = "nil" /\ ~IsZero(N.val) /\ D.err = "nil" /\ ~IsZero(D.val)
                   => ret.err = "nil" /\ IsQuotient(ret.val, N.val, D.val)

\* "0/a": a zero numerator over a denominator that is no number
C3_Witness ==
    /\ Returned("parseEXIFRational")
    /\ arg = <<"0", "/", "a">>
    /\ ret.err = "nil"

\* C4 as stated: parseEXIFRational fails on every text whose numerator is empty
\* after trimming (the empty text, blanks only, a leading slash) and on every
\* text with more than one slash.
C4_EmptyNumeratorFails ==
    Returned("parseEXIFRational") =>
        /\ NumeratorText(TrimSpace(arg)) = <<>> => ret.err # "nil"
        /\ Slashes(arg) > 1 => ret.err # "nil"

\* C4 amended: the empty text and a text of blanks only yield 0 without error;
\* a text that after trimming starts with a slash fails, and so does every text
\* with more than one slash.
C4_EmptyTextIsZero ==
    Returned("parseEXIFRational") =>
        /\ TrimSpace(arg) = <<>> => ret.err = "nil" /\ IsZero(ret.val)
        /\ TrimSpace(arg) # <<>> /\ NumeratorText(TrimSpace(arg)) = <<>> => ret.err # "nil"
        /\ Slashes(arg) > 1 => ret.err # "nil"

\* a text of blanks only, parsed to 0 without error
C4_Witness ==
    /\ Returned("parseEXIFRational")
    /\ arg # <<>>
    /\ TrimSpace(arg) = <<>>
    /\ ret.err = "nil"

\* C9: formatHumanRational gives "0" for the value 0, formatFloat(v, 2) for
\* v >= 0.3, and "1/D" with D = round(1/v) for every other value, negative
\* ones included.
C9_HumanRational ==
    Returned("formatHumanRational") =>
        LET v == parseEXIFRational(arg).val
        IN  ret = IF IsZero(v) THEN <<"0">>
                  ELSE IF GEq(v, 3, 10) THEN formatFloat(v, 2)
                  ELSE <<"1", "/">> \o IntToChars(MathRound(v.s * v.d, v.n))

\* the *EXIFGPS of the call: the result of populateGPSFields, or res.GPS
GPSOf == IF fn = "populateGPSFields" THEN ret ELSE ret.GPS

GPSCall == pc = "done" /\ fn \in {"populateGPSFields", "ParseEXIFFromBimg"}

HasBothCoordinates(gps) == gps.t = "EXIFGPS" /\ {"Latitude", "Longitude"} \subseteq DOMAIN gps

HemisphereLetters == {<<"N">>, <<"n">>, <<"S">>, <<"s">>, <<"E">>, <<"e">>, <<"W">>, <<"w">>}

\* C1 as stated: the GPS sub-record is absent when a raw coordinate is empty,
\* absent when a hemisphere reference is none of N, S, E, W in either case, and
\* in every other case present with both coordinates.
C1_AnyHemisphereLetter ==
    GPSCall =>
        IF \/ arg.GPSLatitude = <<>> \/ arg.GPSLongitude = <<>>
           \/ arg.GPSLatitudeRef \notin HemisphereLetters
           \/ arg.GPSLongitudeRef \notin HemisphereLetters
        THEN GPSOf.t = "nil"
        ELSE HasBothCoordinates(GPSOf)

\* C1 amended: the GPS sub-record is absent when a raw coordinate is empty, absent
\* when the latitude reference is not N or S or the longitude reference is not
\* E or W (in either case), and in every other case present with both
\* coordinates; no call yields a sub-record with one coordinate only.
C1_AllOrNothing ==
    GPSCall =>
        IF \/ arg.GPSLatitude = <<>> \/ arg.GPSLongitude = <<>>
           \/ arg.GPSLatitudeRef \notin {<<"N">>, <<"n">>, <<"S">>, <<"s">>}
           \/ arg.GPSLongitudeRef \notin {<<"E">>, <<"e">>, <<"W">>, <<"w">>}
        THEN GPSOf.t = "nil"
        ELSE HasBothCoordinates(GPSOf)

\* coordinates that parse, with an unknown latitude reference: no sub-record
C1_Witness ==
    /\ Returned("populateGPSFields")
    /\ arg.GPSLatitude = Photo.GPSLatitude
    /\ arg.GPSLongitude = Photo.GPSLongitude
    /\ arg.GPSLatitudeRef = <<"X">>
    /\ arg.GPSLongitudeRef = <<"W">>
    /\ ret.t = "nil"

\* the raw tag behind each JSON key, the flash keys left out
RawSource ==
    "make" :> "Make" @@ "model" :> "Model" @@ "orientation" :> "Orientation"
    @@ "software" :> "Software" @@ "ycbcrPositioning" :> "YCbCrPositioning"
    @@ "exifVersion" :> "ExifVersion" @@ "iso" :> "ISOSpeedRatings"
    @@ "componentsConfiguration" :> "ComponentsConfiguration"
    @@ "focalLengthIn35mmFilm" :> "FocalLengthIn35mmFilm"
    @@ "exifImageWidth" :> "PixelXDimension" @@ "exifImageHeight" :> "PixelYDimension"
    @@ "xResolution" :> "XResolution" @@ "yResolution" :> "YResolution"
    @@ "dateTime" :> "Datetime" @@ "dateTimeOriginal" :> "DateTimeOriginal"
    @@ "dateTimeDigitized" :> "DateTimeDigitized" @@ "fNumber" :> "FNumber"
    @@ "exposureTime" :> "ExposureTime" @@ "exposureProgram" :> "ExposureProgram"
    @@ "shutterSpeedValue" :> "ShutterSpeedValue" @@ "apertureValue" :> "ApertureValue"
    @@ "brightnessValue" :> "BrightnessValue"
    @@ "exposureCompensation" :> "ExposureBiasValue" @@ "meteringMode" :> "MeteringMode"
    @@ "compression" :> "Compression" @@ "focalLength" :> "FocalLength"
    @@ "subjectArea" :> "SubjectArea" @@ "colorSpace" :> "ColorSpace"
    @@ "sensingMethod" :> "SensingMethod" @@ "exposureMode" :> "ExposureMode"
    @@ "sceneType" :> "SceneType" @@ "sceneCaptureType" :> "SceneCaptureType"
    @@ "gps" :> "GPSLatitude" @@ "gps.latitude" :> "GPSLatitude"
    @@ "gps.longitude" :> "GPSLongitude" @@ "gps.altitude" :> "GPSAltitude"
    @@ "gps.speed" :> "GPSSpeed" @@ "gps.direction" :> "GPSImgDirection"
    @@ "gps.directionRef" :> "GPSImgDirectionRef"

\* the raw tag is a non-empty string, or a nonzero code
RawIsSet(s, field) == IF field \in CodeFields THEN s[field] # 0 ELSE s[field] # <<>>

\* C2: in the serialised record a key other than the flash keys is written only
\* if its raw source was a non-empty string or a nonzero code; this holds of the
\* altitude, speed, bearing and bearing reference of a GPS record too.
C2_OnlySetSourcesEmitted ==
    Returned("ParseEXIFFromBimg") =>
        \A k \in DOMAIN body \ {"flash", "flashMode"} :
            k \in DOMAIN RawSource /\ RawIsSet(arg, RawSource[k])

\* the rational texts a call of ParseEXIFFromBimg parses, each with the text its
\* log line would quote
RationalReads(s) ==
    LET plain == {"XResolution", "YResolution", "FNumber", "ExposureTime",
                  "ShutterSpeedValue", "ApertureValue", "BrightnessValue", "FocalLength"}
        coords == s.GPSLatitude # <<>> /\ s.GPSLongitude # <<>>
        latOk  == coords /\ s.GPSLatitudeRef \in {<<"N">>, <<"n">>, <<"S">>, <<"s">>}
        refsOk == latOk /\ s.GPSLongitudeRef \in {<<"E">>, <<"e">>, <<"W">>, <<"w">>}
        parts(v) == {[text |-> Split(v, " ")[i], quoted |-> v] : i \in 1..Len(Split(v, " "))}
    IN  {[text |-> s[f], quoted |-> s[f]] : f \in {g \in plain : s[g] # <<>>}}
            \cup (IF s.ExposureBiasValue \notin {<<>>, <<"0">>}
                  THEN {[text |-> s.ExposureBiasValue, quoted |-> s.ExposureBiasValue]} ELSE {})
            \cup (IF coords THEN parts(s.GPSLatitude) ELSE {})
            \cup (IF latOk THEN parts(s.GPSLongitude) ELSE {})
            \cup (IF refsOk /\ s.GPSAltitude # <<>>
                  THEN {[text |-> s.GPSAltitude, quoted |-> s.GPSAltitude]} ELSE {})
            \cup (IF refsOk /\ s.GPSSpeed # <<>> /\ s.GPSSpeedRef # <<>>
                  THEN {[text |-> s.GPSSpeed, quoted |-> s.GPSSpeed]} ELSE {})
            \cup (IF refsOk /\ s.GPSImgDirection # <<>>
                  THEN {[text |-> s.GPSImgDirection, quoted |-> s.GPSImgDirection]} ELSE {})

\* C5: ParseEXIFFromBimg always returns a record, and every rational text it
\* parses that parseEXIFRational rejects (GPS altitude, speed and bearing
\* included) has a line in the log of that call.
C5_FailuresLogged ==
    Returned("ParseEXIFFromBimg") =>
        /\ "GPS" \in DOMAIN ret
        /\ \A read \in RationalReads(arg) :
               parseEXIFRational(read.text).err # "nil"
                   => \E i \in 1..Len(logs) : logs[i].v = read.quoted

\* the enumeration attributes other than Flash: raw tag, field, JSON key, table
Enumerations == <<
    [raw |-> "ExposureProgram", field |-> "ExposureProgram", key |-> "exposureProgram", table |-> ExposurePrograms],
    [raw |-> "MeteringMode", field |-> "MeteringMode", key |-> "meteringMode",    table |-> MeteringModes],
    [raw |-> "Compression", field |-> "Compression", key |-> "compression",     table |-> Compressions],
    [raw |-> "ColorSpace", field |-> "ColorSpace", key |-> "colorSpace",      table |-> ColorSpaces],
    [raw |-> "SensingMethod", field |-> "SensingMethod", key |-> "sensingMethod",   table |-> SensingMethods],
    [raw |-> "ExposureMode", field |-> "ExposureMode", key |-> "exposureMode",    table |-> ExposureModes] >>

IsLabel(v, label) == v.t = "string" /\ v.v = label

IsCode(v, code) == v.t = "int" /\ v.v = code

IsBool(v, b) == v.t = "bool" /\ v.v = b

\* C6: for the six enumeration attributes a raw code above 0 is written to the
\* output as its label when the table has it and as the raw code itself when it
\* has not; compression 99 gives "JPEG", compression 40000 gives 40000.
C6_UnknownCodePassesThrough ==
    Returned("ParseEXIFFromBimg") =>
        /\ \A i \in 1..Len(Enumerations) :
               LET e == Enumerations[i]
                   c == arg[e.raw]
               IN  c > 0 =>
                       /\ e.key \in DOMAIN body
                       /\ IF c \in DOMAIN e.table
                          THEN IsLabel(body[e.key], e.table[c])
                          ELSE IsCode(body[e.key], c)
        /\ arg.Compression = 99 => IsLabel(body["compression"], "JPEG")
        /\ arg.Compression = 40000 => IsCode(body["compression"], 40000)

\* compression 40000 written as the number 40000
C6_Witness ==
    /\ Returned("ParseEXIFFromBimg")
    /\ arg.Compression = 40000
    /\ "compression" \in DOMAIN body
    /\ IsCode(body["compression"], 40000)

\* C7: for the six enumeration attributes a raw code of 0 or less leaves the
\* field nil and out of the output; the flash flag and the flash label are set
\* for every raw flash code, 0 included.
C7_NonPositiveCodeAbsent ==
    Returned("ParseEXIFFromBimg") =>
        /\ \A i \in 1..Len(Enumerations) :
               arg[Enumerations[i].raw] <= 0
                   => /\ ret[Enumerations[i].field].t = "nil"
                      /\ Enumerations[i].key \notin DOMAIN body
        /\ ret.Flash = (arg.Flash % 2 = 1)
        /\ ret.FlashMode.t # "nil"
        /\ "flashMode" \in DOMAIN body

\* exposure mode 0 left out while flash code 0 is labelled
C7_Witness ==
    /\ Returned("ParseEXIFFromBimg")
    /\ arg.ExposureMode = 0
    /\ arg.Flash = 0
    /\ "exposureMode" \notin DOMAIN body
    /\ IsLabel(body["flashMode"], "No Flash")

\* C8 as stated: fired is bit 0 of the flash code; code 0x19 gives fired and the
\* label "On, Fired"; a code the table lacks, such as 0x02, gives the fired flag
\* itself as the label value.
C8_Flash0x19OnFired ==
    Returned("ParseEXIFFromBimg") =>
        /\ ret.Flash = (arg.Flash % 2 = 1)
        /\ arg.Flash = 25 => ret.Flash /\ IsLabel(ret.FlashMode, "On, Fired")
        /\ arg.Flash \notin DOMAIN FlashModes => IsBool(ret.FlashMode, ret.Flash)
        /\ arg.Flash = 2 => IsBool(ret.FlashMode, FALSE)

\* C8 amended: fired is bit 0 of the flash code; code 0x19 gives fired and the
\* label "Auto, Fired" ("On, Fired" is the label of code 0x09); a code the table
\* lacks, such as 0x02, gives the fired flag itself as the label value.
C8_Flash0x19AutoFired ==
    Returned("ParseEXIFFromBimg") =>
        /\ ret.Flash = (arg.Flash % 2 = 1)
        /\ arg.Flash = 25 => ret.Flash /\ IsLabel(ret.FlashMode, "Auto, Fired")
        /\ arg.Flash = 9 => ret.Flash /\ IsLabel(ret.FlashMode, "On, Fired")
        /\ arg.Flash \notin DOMAIN FlashModes => IsBool(ret.FlashMode, ret.Flash)
        /\ arg.Flash = 2 => IsBool(ret.FlashMode, FALSE)

\* flash code 0x02, which the table lacks, labelled with the boolean false
C8_Witness ==
    /\ Returned("ParseEXIFFromBimg")
    /\ arg.Flash = 2
    /\ ~ret.Flash
    /\ IsBool(ret.FlashMode, FALSE)

\* C10: an altitude that is present and parses is written with no decimals and
\* the suffix " m", negated when the altitude reference is "1"; "12345/100"
\* gives "123 m".
C10_AltitudeWithoutDecimals ==
    (GPSCall /\ GPSOf.t = "EXIFGPS" /\ arg.GPSAltitude # <<>>
        /\ parseEXIFRational(arg.GPSAltitude).err = "nil") =>
        LET alt == parseEXIFRational(arg.GPSAltitude).val
        IN  /\ GPSOf.Altitude =
                   FormatFloat(IF arg.GPSAltitudeRef = <<"1">> THEN Neg(alt) ELSE alt, 0)
                       \o <<" ", "m">>
            /\ arg.GPSAltitude = Photo.GPSAltitude /\ arg.GPSAltitudeRef # <<"1">>
                   => GPSOf.Altitude = <<"1", "2", "3", " ", "m">>

\* the decimal degrees parseGPSCoordinate decodes from a raw coordinate
Decoded(v) == parseGPSCoordinate(v).val

\* C11: in every GPS record that is produced the latitude is the decoded
\* coordinate, negated exactly when the latitude reference is "S" or "s", the
\* longitude is the decoded coordinate, negated exactly when the longitude
\* reference is "W" or "w", and both are rounded to 5 decimals, so that each is a
\* whole number of 1/100000 degrees; "40 26 46.3" with "S" gives -40.44619 and
\* "73 58 12.0" with "W" gives -73.97.
C11_SignAndRounding ==
    (GPSCall /\ GPSOf.t = "EXIFGPS") =>
        /\ GPSOf.Latitude =
               RoundTo(IF arg.GPSLatitudeRef \in {<<"S">>, <<"s">>}
                       THEN Neg(Decoded(arg.GPSLatitude)) ELSE Decoded(arg.GPSLatitude), 5)
        /\ GPSOf.Longitude =
               RoundTo(IF arg.GPSLongitudeRef \in {<<"W">>, <<"w">>}
                       THEN Neg(Decoded(arg.GPSLongitude)) ELSE Decoded(arg.GPSLongitude), 5)
        /\ 100000 % GPSOf.Latitude.d = 0
        /\ 100000 % GPSOf.Longitude.d = 0
        /\ (arg.GPSLatitude = Photo.GPSLatitude /\ arg.GPSLatitudeRef = <<"S">>)
               => GPSOf.Latitude = [s |-> -1, n |-> 4044619, d |-> 100000]
        /\ (arg.GPSLongitude = Photo.GPSLongitude /\ arg.GPSLongitudeRef = <<"W">>)
               => GPSOf.Longitude = [s |-> -1, n |-> 7397, d |-> 100]

\* the southern, western photograph located at -40.44619, -73.97
C11_Witness ==
    /\ Returned("populateGPSFields")
    /\ arg.GPSLatitude = Photo.GPSLatitude /\ arg.GPSLatitudeRef = <<"S">>
    /\ arg.GPSLongitude = Photo.GPSLongitude /\ arg.GPSLongitudeRef = <<"W">>
    /\ ret.t = "EXIFGPS"
    /\ ret.Latitude = [s |-> -1, n |-> 4044619, d |-> 100000]
    /\ ret.Longitude = [s |-> -1, n |-> 7397, d |-> 100]

\* the sum of component_i / 60^i over the components, a component that does not
\* parse counting as 0
RECURSIVE Sexagesimal(_)
Sexagesimal(parts) ==
    IF parts = <<>> THEN Zero
    ELSE Add(Sexagesimal(Front(parts)),
             Quo(parseEXIFRational(parts[Len(parts)]).val, Float(1, Pow(60, Len(parts) - 1), 1)))

\* the components of a coordinate that parseEXIFRational rejects
FailedComponents(v) ==
    {i \in 1..Len(Split(v, " ")) : parseEXIFRational(Split(v, " ")[i]).err # "nil"}

\* the record names the coordinate v in a line of the log
GPSLogged(v) == \E i \in 1..Len(logs) : logs[i].where = "gps" /\ logs[i].v = v

ValidReferences(s) ==
    /\ s.GPSLatitude # <<>> /\ s.GPSLongitude # <<>>
    /\ s.GPSLatitudeRef \in {<<"N">>, <<"n">>, <<"S">>, <<"s">>}
    /\ s.GPSLongitudeRef \in {<<"E">>, <<"e">>, <<"W">>, <<"w">>}

\* C12 as stated: parseGPSCoordinate returns the sum of component_i / 60^i over
\* the space-separated components, a component that fails to parse counting as 0
\* while the others still contribute ("40 1/0 36" gives 40.01); a failure is
\* logged, and the GPS record is produced all the same.
C12_FailureZeroesComponent ==
    /\ Returned("parseGPSCoordinate") =>
           /\ ret = Sexagesimal(Split(arg, " "))
           /\ FailedComponents(arg) # {} => GPSLogged(arg)
           /\ arg = BadMinutes => ret = [s |-> 1, n |-> 4001, d |-> 100]
    /\ (GPSCall /\ ValidReferences(arg)) =>
           /\ GPSOf.t = "EXIFGPS"
           /\ FailedComponents(arg.GPSLatitude) # {} => GPSLogged(arg.GPSLatitude)
           /\ FailedComponents(arg.GPSLongitude) # {} => GPSLogged(arg.GPSLongitude)

\* C12 amended: parseGPSCoordinate returns the sum of component_i / 60^i over the
\* space-separated components when every component parses, and logs nothing;
\* when a component fails to parse the whole coordinate is 0 ("40 1/0 36" gives
\* 0), one line naming the coordinate is logged, and the GPS record is produced
\* all the same, with 0 for that coordinate.
C12_FailureZeroesCoordinate ==
    /\ Returned("parseGPSCoordinate") =>
           /\ FailedComponents(arg) = {} => ret = Sexagesimal(Split(arg, " ")) /\ logs = <<>>
           /\ FailedComponents(arg) # {} =>
                  ret = Zero /\ Len(logs) = 1 /\ GPSLogged(arg)
           /\ arg = BadMinutes => ret = Zero
    /\ (GPSCall /\ ValidReferences(arg)) =>
           /\ GPSOf.t = "EXIFGPS"
           /\ FailedComponents(arg.GPSLatitude) # {} =>
                  IsZero(GPSOf.Latitude) /\ GPSLogged(arg.GPSLatitude)
           /\ FailedComponents(arg.GPSLongitude) # {} =>
                  IsZero(GPSOf.Longitude) /\ GPSLogged(arg.GPSLongitude)

\* "40 1/0 36", whose degrees and seconds parse, decoded as 0 with one line logged
C12_Witness ==
    /\ Returned("parseGPSCoordinate")
    /\ arg = BadMinutes
    /\ FailedComponents(arg) = {2}
    /\ ret = Zero
    /\ Len(logs) = 1

\* a token is a decimal integer: an optional sign, then digits and nothing else
IsInteger(token) ==
    /\ token # <<>>
    /\ \A i \in 2..Len(token) : IsDigit(token[i])
    /\ IF token[1] \in {"+", "-"} THEN Len(token) >= 2 ELSE IsDigit(token[1])

IntegerOf(token) ==
    IF token[1] = "-" THEN -DigitsVal(Tail(token))
    ELSE IF token[1] = "+" THEN DigitsVal(Tail(token)) ELSE DigitsVal(token)

\* the integers among the tokens, in the order of the tokens
RECURSIVE IntegersAmong(_)
IntegersAmong(tokens) ==
    IF tokens = <<>> THEN <<>>
    ELSE (IF IsInteger(Head(tokens)) THEN <<IntegerOf(Head(tokens))>> ELSE <<>>)
             \o IntegersAmong(Tail(tokens))

\* C13: the raw subject area is split on single spaces; with fewer than 2 or more
\* than 4 tokens the field is absent from the record and from the output;
\* otherwise the field is exactly the integers among the tokens, in their order,
\* however few they are, and is written to the output when there is one at
\* least; "10 20 30 abc" gives [10, 20, 30].
C13_SubjectArea ==
    Returned("ParseEXIFFromBimg") =>
        /\ IF Len(Split(arg.SubjectArea, " ")) \in 2..4
           THEN /\ ret.SubjectArea.t = "slice"
                /\ ret.SubjectArea.v = IntegersAmong(Split(arg.SubjectArea, " "))
                /\ IF ret.SubjectArea.v # <<>>
                   THEN "subjectArea" \in DOMAIN body /\ body["subjectArea"] = ret.SubjectArea
                   ELSE "subjectArea" \notin DOMAIN body
           ELSE ret.SubjectArea.t = "nil" /\ "subjectArea" \notin DOMAIN body
        /\ arg.SubjectArea = AreaWithWord => ret.SubjectArea.v = <<10, 20, 30>>

\* four tokens of which three are integers: a subject area of three numbers
C13_Witness ==
    /\ Returned("ParseEXIFFromBimg")
    /\ arg.SubjectArea = AreaWithWord
    /\ Len(Split(arg.SubjectArea, " ")) = 4
    /\ ret.SubjectArea.v = <<10, 20, 30>>
    /\ "subjectArea" \in DOMAIN body

\* C14: the exposure mode of the record is "Auto" for the raw code 0, "Manual"
\* for 1, "Auto bracket" for 2, and the raw code itself for every other code.
C14_ExposureMode ==
    Returned("ParseEXIFFromBimg") =>
        /\ arg.ExposureMode = 0 => IsLabel(ret.ExposureMode, "Auto")
        /\ arg.ExposureMode = 1 => IsLabel(ret.ExposureMode, "Manual")
        /\ arg.ExposureMode = 2 => IsLabel(ret.ExposureMode, "Auto bracket")
        /\ arg.ExposureMode \notin {0, 1, 2} => IsCode(ret.ExposureMode, arg.ExposureMode)

====
